---- MODULE Spec2Model ----
(***************************************************************************)
(* Model of the /api/uoa request handler of the Unusual Options Activity   *)
(* worker (src/worker.js): query parsing, numeric filter sanitising, the   *)
(* upstream URL and cache key, the read-through cache and the response     *)
(* envelopes.                                                              *)
(*                                                                         *)
(* Representation.  A JavaScript string is a sequence of one-character     *)
(* strings.  JsNull (params.get on a missing key, an undefined env entry)  *)
(* is a one-element sequence whose element is no character.  A number is   *)
(* NaN or a decimal fraction n/d with d a power of ten, so 0.75 is 75/100. *)
(* A URL is a base and the ordered list of its query pairs; its            *)
(* string form is a sequence of tokens (the base, parameter names and the  *)
(* characters of the percent-encoded values).                              *)
(***************************************************************************)
EXTENDS Integers, Sequences, FiniteSets, Bags, TLC

\* ------------------------------------------------------------------------
\* Bounds of the model
\* ------------------------------------------------------------------------
MaxInFlight == 2        \* calls of handleUOARequest in progress at once
MaxPending  == 1        \* cache writes handed to ctx.waitUntil and not yet completed

\* ------------------------------------------------------------------------
\* JavaScript strings
\* ------------------------------------------------------------------------
JsNull == <<"(null)">>

Digits == <<"0", "1", "2", "3", "4", "5", "6", "7", "8", "9">>

UpperAlpha == <<"A", "B", "C", "D", "E", "F", "G", "H", "I", "J", "K", "L", "M",
                "N", "O", "P", "Q", "R", "S", "T", "U", "V", "W", "X", "Y", "Z">>

LowerAlpha == <<"a", "b", "c", "d", "e", "f", "g", "h", "i", "j", "k", "l", "m",
                "n", "o", "p", "q", "r", "s", "t", "u", "v", "w", "x", "y", "z">>

IsIn(c, s) == \E i \in 1..Len(s) : s[i] = c

IndexIn(c, s) == CHOOSE i \in 1..Len(s) : s[i] = c

IsDigit(c) == IsIn(c, Digits)

DigitVal(c) == IndexIn(c, Digits) - 1

\* String.prototype.toLowerCase
LowerChar(c) == IF IsIn(c, UpperAlpha) THEN LowerAlpha[IndexIn(c, UpperAlpha)] ELSE c

ToLowerCase(s) == [i \in 1..Len(s) |-> LowerChar(s[i])]

IsSpace(c) == c = " "

RECURSIVE TrimStart(_)
TrimStart(s) == IF s # <<>> /\ IsSpace(Head(s)) THEN TrimStart(Tail(s)) ELSE s

RECURSIVE TrimEnd(_)
TrimEnd(s) ==
    IF s # <<>> /\ IsSpace(s[Len(s)]) THEN TrimEnd(SubSeq(s, 1, Len(s) - 1)) ELSE s

\* String.prototype.trim
Trim(s) == TrimEnd(TrimStart(s))

\* a || b on strings: null and "" are falsy
OrElse(a, b) == IF a = JsNull \/ a = <<>> THEN b ELSE a

\* a ?? b
Coalesce(a, b) == IF a = JsNull THEN b ELSE a

\* truthiness of a string-or-null value
Truthy(a) == a # JsNull /\ a # <<>>

TrueStr  == <<"t", "r", "u", "e">>
FalseStr == <<"f", "a", "l", "s", "e">>

\* String(x).toLowerCase() === "true"   (String(null) is "null")
IsTrueParam(a) == a # JsNull /\ ToLowerCase(a) = TrueStr

\* ------------------------------------------------------------------------
\* Numbers: Number(string) for the strings the handler converts
\* ------------------------------------------------------------------------
RECURSIVE Pow10(_)
Pow10(k) == IF k = 0 THEN 1 ELSE 10 * Pow10(k - 1)

RECURSIVE DigitsValue(_)
DigitsValue(s) ==
    IF s = <<>> THEN 0 ELSE 10 * DigitsValue(SubSeq(s, 1, Len(s) - 1)) + DigitVal(s[Len(s)])

AllDigits(s) == \A i \in 1..Len(s) : IsDigit(s[i])

NaN == [fin |-> FALSE, n |-> 0, d |-> 1]

\* A finite number n/d, d a power of ten.
Fin(n, d) == [fin |-> TRUE, n |-> n, d |-> d]

\* StrUnsignedDecimalLiteral without exponent: digits, digits.digits?, .digits
UnsignedDecimal(s) ==
    IF s = <<>> THEN NaN
    ELSE IF AllDigits(s) THEN Fin(DigitsValue(s), 1)
    ELSE IF \E i \in 1..Len(s) :
               /\ s[i] = "."
               /\ AllDigits(SubSeq(s, 1, i - 1))
               /\ AllDigits(SubSeq(s, i + 1, Len(s)))
               /\ Len(s) > 1
         THEN LET i == CHOOSE j \in 1..Len(s) : s[j] = "."
                  ip == SubSeq(s, 1, i - 1)
                  fp == SubSeq(s, i + 1, Len(s))
              IN  Fin(DigitsValue(ip) * Pow10(Len(fp)) + DigitsValue(fp), Pow10(Len(fp)))
         ELSE NaN

\* Number(s) for a string s: surrounding white space is ignored, "" is 0, one
\* optional sign, then an unsigned decimal; anything else is NaN.  (Exponents,
\* hexadecimal literals and "Infinity" need letters, which are NaN here.)
ToNumber(s0) ==
    LET s == Trim(s0)
    IN  IF s = <<>> THEN Fin(0, 1)
        ELSE IF Head(s) = "-"
             THEN LET u == UnsignedDecimal(Tail(s))
                  IN  IF u.fin THEN Fin(0 - u.n, u.d) ELSE NaN
        ELSE IF Head(s) = "+" THEN UnsignedDecimal(Tail(s))
        ELSE UnsignedDecimal(s)

\* a >= b for finite numbers
NumGeq(a, b) == a.n * b.d >= b.n * a.d

\* a > b for finite numbers
NumGt(a, b) == a.n * b.d > b.n * a.d

\* a === b for finite numbers
NumEq(a, b) == a.n * b.d = b.n * a.d

\* ------------------------------------------------------------------------
\* normalizeNumericFilter
\* ------------------------------------------------------------------------
IsNumericChar(c) == IsDigit(c) \/ c = "." \/ c = "+" \/ c = "-"

\* Mutant: nothing is stripped.
CleanNothing(s) == s

\* value.replace(/[^0-9.+-]/g, "")
CleanNumeric(s) == SelectSeq(s, IsNumericChar)

\* /^[-+]?$/u
OnlySign(s) == s = <<>> \/ s = <<"-">> \/ s = <<"+">>

NoFilter == [isNull |-> TRUE, numericValue |-> NaN, textValue |-> <<>>]

normalizeNumericFilter(value) ==
    IF value = JsNull THEN NoFilter
    ELSE LET trimmed == Trim(value)
             cleaned == CleanNumeric(trimmed)
             numericValue == ToNumber(cleaned)
         IN  IF trimmed = <<>> THEN NoFilter
             ELSE IF cleaned = <<>> \/ OnlySign(cleaned) THEN NoFilter
             ELSE IF ~numericValue.fin THEN NoFilter
             ELSE [isNull |-> FALSE, numericValue |-> numericValue, textValue |-> cleaned]

\* ------------------------------------------------------------------------
\* URL and URLSearchParams
\* ------------------------------------------------------------------------
\* Characters the form-urlencoded serializer writes as they are.
IsUrlSafe(c) ==
    IsDigit(c) \/ IsIn(c, LowerAlpha) \/ IsIn(c, UpperAlpha) \/ IsIn(c, <<"*", "-", ".", "_">>)

\* The percent-encoded bytes of the other characters of the model's alphabet.
PctTable == << <<"$", "2", "4">>, <<"%", "2", "5">>, <<"&", "2", "6">>, <<"+", "2", "B">>,
               <<",", "2", "C">>, <<"/", "2", "F">>, <<":", "3", "A">>, <<"=", "3", "D">>,
               <<"?", "3", "F">> >>

PctIndex(c) == CHOOSE i \in 1..Len(PctTable) : PctTable[i][1] = c

HasPct(c) == \E i \in 1..Len(PctTable) : PctTable[i][1] = c

EncodeChar(c) ==
    IF IsUrlSafe(c) THEN <<c>>
    ELSE IF c = " " THEN <<"+">>
    ELSE IF HasPct(c) THEN <<"%", PctTable[PctIndex(c)][2], PctTable[PctIndex(c)][3]>>
    ELSE <<"%", "?", "?">>

RECURSIVE EncodeValue(_)
EncodeValue(s) == IF s = <<>> THEN <<>> ELSE EncodeChar(Head(s)) \o EncodeValue(Tail(s))

RECURSIVE DecodeValue(_)
DecodeValue(t) ==
    IF t = <<>> THEN <<>>
    ELSE IF Head(t) = "+" THEN <<" ">> \o DecodeValue(Tail(t))
    ELSE IF Head(t) = "%" /\ Len(t) >= 3
              /\ \E i \in 1..Len(PctTable) : PctTable[i][2] = t[2] /\ PctTable[i][3] = t[3]
         THEN LET i == CHOOSE j \in 1..Len(PctTable) :
                           PctTable[j][2] = t[2] /\ PctTable[j][3] = t[3]
              IN  <<PctTable[i][1]>> \o DecodeValue(SubSeq(t, 4, Len(t)))
    ELSE <<Head(t)>> \o DecodeValue(Tail(t))

\* URLSearchParams.toString(): name=value pairs joined by "&"
RECURSIVE SerializeParams(_)
SerializeParams(ps) ==
    IF ps = <<>> THEN <<>>
    ELSE <<ps[1][1], "=">> \o EncodeValue(ps[1][2])
         \o (IF Len(ps) > 1 THEN <<"&">> \o SerializeParams(Tail(ps)) ELSE <<>>)

\* URL.toString()
UrlToString(u) ==
    <<u.base>> \o (IF u.params = <<>> THEN <<>> ELSE <<"?">> \o SerializeParams(u.params))

\* Position of the first "&" in t, or Len(t) + 1.
FirstAmp(t) ==
    IF \E i \in 1..Len(t) : t[i] = "&"
    THEN CHOOSE i \in 1..Len(t) : t[i] = "&" /\ \A j \in 1..(i - 1) : t[j] # "&"
    ELSE Len(t) + 1

\* One name=value piece of a query string.
ParsePair(piece) ==
    IF Len(piece) >= 2 /\ piece[2] = "="
    THEN <<piece[1], DecodeValue(SubSeq(piece, 3, Len(piece)))>>
    ELSE <<piece[1], <<>> >>

RECURSIVE ParseParams(_)
ParseParams(t) ==
    IF t = <<>> THEN <<>>
    ELSE LET k == FirstAmp(t)
             piece == SubSeq(t, 1, k - 1)
             rest  == SubSeq(t, k + 1, Len(t))
         IN  (IF piece = <<>> THEN <<>> ELSE <<ParsePair(piece)>>) \o ParseParams(rest)

\* new URL(string)
ParseUrl(s) ==
    [base |-> s[1],
     params |-> IF Len(s) >= 2 /\ s[2] = "?" THEN ParseParams(SubSeq(s, 3, Len(s))) ELSE <<>>]

HasParam(ps, name) == \E i \in 1..Len(ps) : ps[i][1] = name

FirstParam(ps, name) ==
    CHOOSE i \in 1..Len(ps) : ps[i][1] = name /\ \A j \in 1..(i - 1) : ps[j][1] # name

\* URLSearchParams.get
ParamGet(ps, name) == IF HasParam(ps, name) THEN ps[FirstParam(ps, name)][2] ELSE JsNull

RECURSIVE DropParam(_, _)
DropParam(ps, name) ==
    IF ps = <<>> THEN <<>>
    ELSE IF ps[1][1] = name THEN DropParam(Tail(ps), name)
    ELSE <<ps[1]>> \o DropParam(Tail(ps), name)

\* URLSearchParams.set: the first pair named name gets the value and the other
\* pairs of that name go; with no such pair, the pair is appended.
ParamSet(ps, name, value) ==
    IF HasParam(ps, name)
    THEN LET i == FirstParam(ps, name)
         IN  SubSeq(ps, 1, i - 1) \o << <<name, value>> >>
             \o DropParam(SubSeq(ps, i + 1, Len(ps)), name)
    ELSE Append(ps, <<name, value>>)

SetParam(u, name, value) == [u EXCEPT !.params = ParamSet(u.params, name, value)]

\* if (value) u.searchParams.set(name, value)
SetIfTruthy(u, name, value) == IF Truthy(value) THEN SetParam(u, name, value) ELSE u

\* ------------------------------------------------------------------------
\* buildBenzingaURL
\* ------------------------------------------------------------------------
buildBenzingaURL(a) ==
    LET u0 == ParseUrl(a.baseUrl)
        u1 == SetIfTruthy(u0, "token", a.token)
        u2 == SetIfTruthy(u1, "tickers", a.tickers)
        u3 == SetIfTruthy(u2, "sentiment", a.sentiment)
        u4 == SetIfTruthy(u3, "min_total_trade_value", a.minPremium)
        u5 == IF a.sweepOnly THEN SetParam(u4, "sweep_only", TrueStr) ELSE u4
        u6 == SetIfTruthy(u5, "date_from", a.dateFrom)
        u7 == SetIfTruthy(u6, "date_to", a.dateTo)
        u8 == SetParam(u7, "page", a.page)
    IN  SetParam(u8, "pagesize", a.pageSize)

\* ------------------------------------------------------------------------
\* handleUOARequest: query parsing (the locals of lines 46-69)
\* ------------------------------------------------------------------------
QueryNames == {"tickers", "sentiment", "min_premium", "min_total_trade_value",
               "sweep_only", "sweepOnly", "volume_gt_oi", "volumeGtOi", "size_gt_oi",
               "aggressive_buy_only", "aggressiveBuyOnly",
               "aggressive_sell_only", "aggressiveSellOnly",
               "page", "page_number", "page_size", "pagesize", "pageSize", "limit",
               "date_from", "date_to"}

\* The query with no parameter at all.
EmptyQuery == [n \in QueryNames |-> JsNull]

tickers(q) == Trim(OrElse(q["tickers"], <<>>))

sentiment(q) == Trim(OrElse(q["sentiment"], <<>>))

minPremiumRaw(q) == Coalesce(q["min_premium"], q["min_total_trade_value"])

minPremiumFilter(q) == normalizeNumericFilter(minPremiumRaw(q))

\* minPremiumFilter?.textValue (undefined when there is no filter)
minPremium(q) == IF minPremiumFilter(q).isNull THEN JsNull ELSE minPremiumFilter(q).textValue

sweepOnly(q) == IsTrueParam(Coalesce(q["sweep_only"], Coalesce(q["sweepOnly"], FalseStr)))

volumeGtOi(q) ==
    IsTrueParam(Coalesce(q["volume_gt_oi"],
                Coalesce(q["volumeGtOi"], Coalesce(q["size_gt_oi"], FalseStr))))

aggressiveBuyOnly(q) ==
    IsTrueParam(Coalesce(q["aggressive_buy_only"], Coalesce(q["aggressiveBuyOnly"], FalseStr)))

aggressiveSellOnly(q) ==
    IsTrueParam(Coalesce(q["aggressive_sell_only"], Coalesce(q["aggressiveSellOnly"], FalseStr)))

page(q) == OrElse(q["page"], OrElse(q["page_number"], <<"1">>))

pageSize(q) ==
    OrElse(q["page_size"], OrElse(q["pagesize"],
           OrElse(q["pageSize"], OrElse(q["limit"], <<"5", "0">>))))

dateFrom(q) == OrElse(q["date_from"], <<>>)

dateTo(q) == OrElse(q["date_to"], <<>>)

\* ------------------------------------------------------------------------
\* handleUOARequest: upstream URL, credential check, cache key (lines 71-95)
\* ------------------------------------------------------------------------
DefaultBaseUrl == <<"https://api.benzinga.com/api/v1/signal/option_activity">>

useHeaderAuth(env) == env.BENZINGA_USE_AUTH_HEADER = TrueStr

UpstreamArgs(q, env) ==
    [baseUrl    |-> OrElse(env.BENZINGA_BASE_URL, DefaultBaseUrl),
     token      |-> IF useHeaderAuth(env) THEN JsNull ELSE env.BENZINGA_API_KEY,
     tickers    |-> tickers(q),
     sentiment  |-> sentiment(q),
     minPremium |-> minPremium(q),
     sweepOnly  |-> sweepOnly(q),
     page       |-> page(q),
     pageSize   |-> pageSize(q),
     dateFrom   |-> dateFrom(q),
     dateTo     |-> dateTo(q)]

\* Mutant: the minimum premium goes upstream as the caller wrote it.
apiUrlUnsanitized(q, env) ==
    buildBenzingaURL([UpstreamArgs(q, env) EXCEPT !.minPremium = minPremiumRaw(q)])

\* Mutant: the minimum premium is left out of the upstream URL.
apiUrlWithoutPremium(q, env) ==
    buildBenzingaURL([UpstreamArgs(q, env) EXCEPT !.minPremium = JsNull])

apiUrl(q, env) == buildBenzingaURL(UpstreamArgs(q, env))

\* Mutant: the credential is not checked.
CredentialNeverMissing(env) == FALSE

\* !env.BENZINGA_API_KEY
CredentialMissing(env) == ~Truthy(env.BENZINGA_API_KEY)

BoolStr(b) == IF b THEN TrueStr ELSE FalseStr

LocalFlags(q) ==
    [volume_gt_oi         |-> volumeGtOi(q),
     aggressive_buy_only  |-> aggressiveBuyOnly(q),
     aggressive_sell_only |-> aggressiveSellOnly(q)]

\* Mutant: the key leaves out the aggressive-sell flag.
cacheKeyUrlWithoutSell(url, flags) ==
    LET k0 == ParseUrl(UrlToString(url))
        k1 == SetParam(k0, "volume_gt_oi", BoolStr(flags.volume_gt_oi))
    IN  SetParam(k1, "aggressive_buy_only", BoolStr(flags.aggressive_buy_only))

\* cacheKeyUrl: the upstream URL re-parsed from its string, with the three
\* local-only flags set.
cacheKeyUrl(url, flags) ==
    LET k0 == ParseUrl(UrlToString(url))
        k1 == SetParam(k0, "volume_gt_oi", BoolStr(flags.volume_gt_oi))
        k2 == SetParam(k1, "aggressive_buy_only", BoolStr(flags.aggressive_buy_only))
    IN  SetParam(k2, "aggressive_sell_only", BoolStr(flags.aggressive_sell_only))

\* The URL of the Request that keys the cache.
cacheKey(q, env) == UrlToString(cacheKeyUrl(apiUrl(q, env), LocalFlags(q)))

\* Mutant: the URL with the flags is fetched.
fetchUrlWithFlags(q, env) == cacheKey(q, env)

\* The URL handed to fetch.
fetchUrl(q, env) == UrlToString(apiUrl(q, env))

\* ------------------------------------------------------------------------
\* JavaScript values of the upstream payload
\* ------------------------------------------------------------------------
\* A value is a record of one shape: its type tag and the payload of that type.
Undefined == [t |-> "undefined", num |-> NaN, str |-> <<>>, b |-> FALSE]

Null == [t |-> "null", num |-> NaN, str |-> <<>>, b |-> FALSE]

NumV(x) == [t |-> "number", num |-> x, str |-> <<>>, b |-> FALSE]

StrV(s) == [t |-> "string", num |-> NaN, str |-> s, b |-> FALSE]

BoolV(b) == [t |-> "boolean", num |-> NaN, str |-> <<>>, b |-> b]

IntV(n) == NumV(Fin(n, 1))

\* v === undefined || v === null
Nullish(v) == v.t \in {"undefined", "null"}

\* Boolean(v)
JsTruthy(v) ==
    CASE v.t = "boolean" -> v.b
      [] v.t = "number"  -> v.num.fin /\ v.num.n # 0
      [] v.t = "string"  -> v.str # <<>>
      [] OTHER           -> FALSE

\* Number(v)
NumberOf(v) ==
    CASE v.t = "number"    -> v.num
      [] v.t = "string"    -> ToNumber(v.str)
      [] v.t = "boolean"   -> IF v.b THEN Fin(1, 1) ELSE Fin(0, 1)
      [] v.t = "null"      -> Fin(0, 1)
      [] OTHER             -> NaN

\* Number.isFinite(v): true of finite numbers only, no coercion
IsFiniteNumber(v) == v.t = "number" /\ v.num.fin

\* row?.name: undefined when the row has no such field (or is no object)
Field(row, name) == IF name \in DOMAIN row THEN row[name] ELSE Undefined

\* a ?? b ?? ... ?? last over the fields named in names
RECURSIVE FirstDefined(_, _, _)
FirstDefined(row, names, last) ==
    IF names = <<>> THEN last
    ELSE IF ~Nullish(Field(row, Head(names))) THEN Field(row, Head(names))
    ELSE FirstDefined(row, Tail(names), last)

\* a || b || ... || last over the fields named in names
RECURSIVE FirstTruthy(_, _, _)
FirstTruthy(row, names, last) ==
    IF names = <<>> THEN last
    ELSE IF JsTruthy(Field(row, Head(names))) THEN Field(row, Head(names))
    ELSE FirstTruthy(row, Tail(names), last)

\* The values of the fields named in names, in order.
Candidates(row, names) == [i \in 1..Len(names) |-> Field(row, names[i])]

\* s.includes(sub)
Includes(s, sub) ==
    \E i \in 1..(Len(s) - Len(sub) + 1) : SubSeq(s, i, i + Len(sub) - 1) = sub

\* String.prototype.toUpperCase
UpperChar(c) == IF IsIn(c, LowerAlpha) THEN UpperAlpha[IndexIn(c, LowerAlpha)] ELSE c

ToUpperCase(s) == [i \in 1..Len(s) |-> UpperChar(s[i])]

RECURSIVE NatToString(_)
NatToString(n) ==
    IF n < 10 THEN <<Digits[n + 1]>> ELSE NatToString(n \div 10) \o <<Digits[(n % 10) + 1]>>

\* The digits of the fraction r/d (0 <= r < d, d a power of ten), without
\* trailing zeros.
RECURSIVE FracDigits(_, _)
FracDigits(r, d) ==
    IF r = 0 \/ d = 1 THEN <<>>
    ELSE <<Digits[((r * 10) \div d) + 1]>> \o FracDigits((r * 10) % d, d)

\* String(x) for a number x (the magnitudes of the model need no exponent form)
NumToString(x) ==
    IF ~x.fin THEN <<"N", "a", "N">>
    ELSE LET a  == IF x.n < 0 THEN 0 - x.n ELSE x.n
             ip == a \div x.d
             fp == FracDigits(a % x.d, x.d)
         IN  (IF x.n < 0 THEN <<"-">> ELSE <<>>) \o NatToString(ip)
             \o (IF fp = <<>> THEN <<>> ELSE <<".">> \o fp)

\* String(v)
StringOf(v) ==
    CASE v.t = "string"  -> v.str
      [] v.t = "number"  -> NumToString(v.num)
      [] v.t = "boolean" -> BoolStr(v.b)
      [] v.t = "null"    -> <<"n", "u", "l", "l">>
      [] OTHER           -> <<"u", "n", "d", "e", "f", "i", "n", "e", "d">>

\* ------------------------------------------------------------------------
\* extractFirstFiniteNumber, extractFirstString, extractFirstBoolean
\* ------------------------------------------------------------------------
RECURSIVE extractFirstFiniteNumber(_)
extractFirstFiniteNumber(candidates) ==
    IF candidates = <<>> THEN Null
    ELSE LET value == Head(candidates)
             number == NumberOf(value)
             cleaned == CleanNumeric(value.str)
             parsed == ToNumber(cleaned)
         IN  IF number.fin THEN NumV(number)
             ELSE IF value.t = "string" /\ cleaned # <<>> /\ parsed.fin THEN NumV(parsed)
             ELSE extractFirstFiniteNumber(Tail(candidates))

RECURSIVE extractFirstString(_)
extractFirstString(candidates) ==
    IF candidates = <<>> THEN <<>>
    ELSE IF Head(candidates).t = "string" /\ Trim(Head(candidates).str) # <<>>
         THEN Trim(Head(candidates).str)
         ELSE extractFirstString(Tail(candidates))

TrueWords == {<<"t", "r", "u", "e">>, <<"t">>, <<"y", "e", "s">>, <<"y">>, <<"1">>}

FalseWords == {<<"f", "a", "l", "s", "e">>, <<"f">>, <<"n", "o">>, <<"n">>, <<"0">>}

RECURSIVE extractFirstBoolean(_)
extractFirstBoolean(candidates) ==
    IF candidates = <<>> THEN FALSE
    ELSE LET value == Head(candidates)
             normalized == ToLowerCase(Trim(value.str))
         IN  IF value.t = "boolean" THEN value.b
             ELSE IF value.t = "number" /\ value.num.fin /\ NumEq(value.num, Fin(1, 1)) THEN TRUE
             ELSE IF value.t = "number" /\ value.num.fin /\ value.num.n = 0 THEN FALSE
             ELSE IF value.t = "string" /\ normalized \in TrueWords THEN TRUE
             ELSE IF value.t = "string" /\ normalized \in FalseWords THEN FALSE
             ELSE extractFirstBoolean(Tail(candidates))

\* ------------------------------------------------------------------------
\* normalizeAggressorIndicator and the indicator sets
\* ------------------------------------------------------------------------
IsAlnum(c) == IsDigit(c) \/ IsIn(c, LowerAlpha) \/ IsIn(c, UpperAlpha)

\* text.replace(/[^a-z0-9]+/gi, "_"): every run of other characters becomes "_"
RECURSIVE UnderscoreRuns(_, _)
UnderscoreRuns(s, inRun) ==
    IF s = <<>> THEN <<>>
    ELSE IF IsAlnum(Head(s)) THEN <<Head(s)>> \o UnderscoreRuns(Tail(s), FALSE)
    ELSE (IF inRun THEN <<>> ELSE <<"_">>) \o UnderscoreRuns(Tail(s), TRUE)

\* .replace(/^_|_$/g, "")
StripUnderscoreEnds(s) ==
    LET a == IF s # <<>> /\ Head(s) = "_" THEN Tail(s) ELSE s
    IN  IF a # <<>> /\ a[Len(a)] = "_" THEN SubSeq(a, 1, Len(a) - 1) ELSE a

\* The words the indicator tables use.
W_AT_ASK == <<"A", "T", "_", "A", "S", "K">>

W_ABOVE_ASK == <<"A", "B", "O", "V", "E", "_", "A", "S", "K">>

W_AT_BID == <<"A", "T", "_", "B", "I", "D">>

W_BELOW_BID == <<"B", "E", "L", "O", "W", "_", "B", "I", "D">>

W_AT_MIDPOINT == <<"A", "T", "_", "M", "I", "D", "P", "O", "I", "N", "T">>

W_AT_OR_ABOVE_ASK == <<"A", "T", "_", "O", "R", "_", "A", "B", "O", "V", "E", "_", "A", "S", "K">>

W_OVER_ASK == <<"O", "V", "E", "R", "_", "A", "S", "K">>

W_BUYER == <<"B", "U", "Y", "E", "R">>

W_AT_OR_BELOW_BID == <<"A", "T", "_", "O", "R", "_", "B", "E", "L", "O", "W", "_", "B", "I", "D">>

W_UNDER_BID == <<"U", "N", "D", "E", "R", "_", "B", "I", "D">>

W_SELLER == <<"S", "E", "L", "L", "E", "R">>

W_HIT_BID == <<"H", "I", "T", "_", "B", "I", "D">>

\* The mapping table of normalizeAggressorIndicator, in source order:
\* <<key, canonical indicator>>.
IndicatorMapping ==
    << << <<"A", "T", "A", "S", "K">>, W_AT_ASK >>,
       << <<"A", "S", "K">>, W_AT_ASK >>,
       << <<"A", "T", "_", "O", "R", "_", "A", "B", "O", "V", "E", "_", "A", "S", "K">>, W_AT_ASK >>,
       << <<"O", "V", "E", "R", "_", "A", "S", "K">>, W_ABOVE_ASK >>,
       << <<"A", "B", "O", "V", "E", "A", "S", "K">>, W_ABOVE_ASK >>,
       << <<"A", "B", "O", "V", "E", "_", "T", "H", "E", "_", "A", "S", "K">>, W_ABOVE_ASK >>,
       << <<"L", "I", "F", "T">>, W_AT_ASK >>,
       << <<"L", "I", "F", "T", "_", "A", "S", "K">>, W_AT_ASK >>,
       << <<"T", "A", "K", "E">>, W_AT_ASK >>,
       << <<"T", "A", "K", "E", "_", "A", "S", "K">>, W_AT_ASK >>,
       << <<"A", "T", "B", "I", "D">>, W_AT_BID >>,
       << <<"B", "I", "D">>, W_AT_BID >>,
       << <<"H", "I", "T", "_", "B", "I", "D">>, W_AT_BID >>,
       << <<"A", "T", "_", "O", "R", "_", "B", "E", "L", "O", "W", "_", "B", "I", "D">>, W_AT_BID >>,
       << <<"U", "N", "D", "E", "R", "_", "B", "I", "D">>, W_BELOW_BID >>,
       << <<"B", "E", "L", "O", "W", "B", "I", "D">>, W_BELOW_BID >>,
       << <<"B", "E", "L", "O", "W", "_", "T", "H", "E", "_", "B", "I", "D">>, W_BELOW_BID >>,
       << <<"S", "E", "L", "L", "E", "R">>, W_AT_BID >>,
       << <<"B", "U", "Y", "E", "R">>, W_AT_ASK >>,
       << <<"M", "I", "D">>, W_AT_MIDPOINT >>,
       << <<"A", "T", "M", "I", "D">>, W_AT_MIDPOINT >>,
       << <<"A", "T", "_", "M", "I", "D">>, W_AT_MIDPOINT >>,
       << <<"A", "T", "M", "I", "D", "P", "O", "I", "N", "T">>, W_AT_MIDPOINT >> >>

HasMapping(w) == \E i \in 1..Len(IndicatorMapping) : IndicatorMapping[i][1] = w

MappingOf(w) == IndicatorMapping[CHOOSE i \in 1..Len(IndicatorMapping) : IndicatorMapping[i][1] = w][2]

\* The argument is a JavaScript value; the result is a string ("" for none).
normalizeAggressorIndicator(value) ==
    IF Nullish(value) THEN <<>>
    ELSE LET text == Trim(StringOf(value))
             normalized == ToUpperCase(StripUnderscoreEnds(UnderscoreRuns(text, FALSE)))
         IN  IF text = <<>> THEN <<>>
             ELSE IF normalized = <<>> THEN <<>>
             ELSE IF HasMapping(normalized) THEN MappingOf(normalized)
             ELSE normalized

RECURSIVE extractFirstAggressorIndicator(_)
extractFirstAggressorIndicator(candidates) ==
    IF candidates = <<>> THEN <<>>
    ELSE IF normalizeAggressorIndicator(Head(candidates)) # <<>>
         THEN normalizeAggressorIndicator(Head(candidates))
         ELSE extractFirstAggressorIndicator(Tail(candidates))

AGGRESSIVE_BUY_INDICATORS == {W_AT_ASK, W_ABOVE_ASK, W_AT_OR_ABOVE_ASK, W_OVER_ASK, W_BUYER}

AGGRESSIVE_SELL_INDICATORS ==
    {W_AT_BID, W_BELOW_BID, W_AT_OR_BELOW_BID, W_UNDER_BID, W_SELLER, W_HIT_BID}

\* The argument is a string, the indicator extracted from the row.
isAggressiveBuyIndicator(value) ==
    IF value = <<>> THEN FALSE
    ELSE normalizeAggressorIndicator(StrV(value)) \in AGGRESSIVE_BUY_INDICATORS

isAggressiveSellIndicator(value) ==
    IF value = <<>> THEN FALSE
    ELSE normalizeAggressorIndicator(StrV(value)) \in AGGRESSIVE_SELL_INDICATORS

\* ------------------------------------------------------------------------
\* buildDisplayTime
\* ------------------------------------------------------------------------
\* new Date(ms).toISOString() with "T" replaced by a blank and the milliseconds
\* dropped is a function of the whole seconds since the epoch; the string is
\* kept as that count between two markers.  The numbers of the model are below
\* 2^31, hence never above the 1e12 threshold: updated is always in seconds.
IsoDisplay(seconds) == <<"utc(">> \o NumToString(Fin(seconds, 1)) \o <<")Z">>

buildDisplayTime(date, time, updated) ==
    LET epochSeconds == NumberOf(updated)
    IN  IF JsTruthy(date) /\ JsTruthy(time)
        THEN StrV(Trim(StringOf(date) \o <<" ">> \o StringOf(time)))
        ELSE IF JsTruthy(time) THEN time
        ELSE IF JsTruthy(date) THEN date
        ELSE IF ~epochSeconds.fin \/ epochSeconds.n = 0 THEN StrV(<<>>)
        ELSE StrV(IsoDisplay(epochSeconds.n \div epochSeconds.d))

\* ------------------------------------------------------------------------
\* normalizeBenzingaPayload
\* ------------------------------------------------------------------------
\* A decoded JSON body.  kind is "array", "object" or "null"/"string"/"number"
\* for the other JSON values; items are the rows of a top-level array; the
\* other fields are those of a top-level object that the worker reads.  A row
\* is a record of the fields it has (none for a row that is no object), each
\* a JavaScript value.
NotArray == [arr |-> FALSE, items |-> <<>>]

ArrayOf(items) == [arr |-> TRUE, items |-> items]

NoObject == [arr |-> FALSE, items |-> <<>>, option_activity |-> NotArray]

EmptyObject ==
    [kind |-> "object", items |-> <<>>, option_activity |-> NotArray, data |-> NoObject,
     error |-> Undefined, message |-> Undefined, errors |-> NotArray]

JsonArray(items) == [EmptyObject EXCEPT !.kind = "array", !.items = items]

JsonNull == [EmptyObject EXCEPT !.kind = "null"]

\* The four places of the record array, in the order tried.
PayloadRows(data) ==
    IF data.kind = "array" THEN data.items
    ELSE IF data.kind = "object" /\ data.option_activity.arr THEN data.option_activity.items
    ELSE IF data.kind = "object" /\ data.data.option_activity.arr
         THEN data.data.option_activity.items
    ELSE IF data.kind = "object" /\ data.data.arr THEN data.data.items
    ELSE <<>>

PremiumFields == <<"cost_basis", "total_trade_value", "total_cost", "premium",
                   "notional_value", "notional">>

OpenInterestFields == <<"open_interest", "open_interest_prior", "previous_open_interest",
                        "openInterest", "oi">>

PosInSpreadFields == <<"pos_in_spread", "posInSpread", "position_in_spread",
                       "positionInSpread">>

PriceRelationFields == <<"price_relation", "price_relation_description", "price_level",
                         "priceLevel", "trade_price_relation", "tradePriceRelation",
                         "trade_at", "tradeAt", "price_condition", "priceCondition",
                         "price_condition_detail", "priceConditionDetail">>

AggressorIndicatorFields == <<"aggressor_ind", "aggressor_indicator", "aggressorIndicator",
                              "aggressorInd", "execution_side", "executionSide",
                              "trade_side", "tradeSide", "price_at_execution",
                              "priceAtExecution">>

AtOrAboveAskFields == <<"at_or_above_ask", "atOrAboveAsk", "at_ask", "atAsk", "above_ask",
                        "aboveAsk", "is_at_ask", "isAtAsk", "is_above_ask", "isAboveAsk">>

AtOrBelowBidFields == <<"at_or_below_bid", "atOrBelowBid", "at_bid", "atBid", "below_bid",
                        "belowBid", "is_at_bid", "isAtBid", "is_below_bid", "isBelowBid">>

AskPhrases == {<<"a", "t", " ", "a", "s", "k">>,
               <<"a", "b", "o", "v", "e", " ", "a", "s", "k">>,
               <<"a", "s", "k", " ", "s", "i", "d", "e">>,
               <<"o", "v", "e", "r", " ", "a", "s", "k">>,
               <<"t", "a", "k", "e", " ", "a", "s", "k">>}

BidPhrases == {<<"a", "t", " ", "b", "i", "d">>,
               <<"b", "e", "l", "o", "w", " ", "b", "i", "d">>,
               <<"b", "i", "d", " ", "s", "i", "d", "e">>,
               <<"u", "n", "d", "e", "r", " ", "b", "i", "d">>,
               <<"h", "i", "t", " ", "b", "i", "d">>}

\* 0.75 and 0.25, the spread positions from which a trade counts as aggressive
AggressiveBuyFrom == Fin(75, 100)

\* Mutant: an aggressive sell up to 0.75.
AggressiveSellUpToBuyLimit == Fin(75, 100)

AggressiveSellUpTo == Fin(25, 100)

\* One row of rows.map: now is the reading of Date.now() for this row.
NormalizeRow(row, now) ==
    LET ticker == FirstTruthy(row, <<"ticker", "symbol", "underlying_symbol", "underlying_ticker">>,
                              StrV(<<>>))
        type == FirstTruthy(row, <<"put_call", "option_type">>, StrV(<<>>))
        side == FirstTruthy(row, <<"sentiment", "side">>, StrV(<<>>))
        sweepValue == FirstDefined(row, <<"sweep", "is_sweep", "order_type", "option_activity_type">>,
                                   Undefined)
        sweep == IF sweepValue.t = "boolean" THEN sweepValue.b
                 ELSE IF sweepValue.t = "string"
                      THEN Includes(ToLowerCase(sweepValue.str), <<"s", "w", "e", "e", "p">>)
                      ELSE FALSE
        premium == NumberOf(FirstDefined(row, PremiumFields, IntV(0)))
        tradePrice == NumberOf(FirstDefined(row, <<"price", "trade_price", "fill_price">>, IntV(0)))
        quantity == NumberOf(FirstDefined(row, <<"size", "quantity", "volume">>, IntV(0)))
        openInterest == NumberOf(FirstDefined(row, OpenInterestFields, IntV(0)))
        strike == NumberOf(FirstDefined(row, <<"strike_price", "strike">>, IntV(0)))
        expiry == FirstTruthy(row, <<"date_expiration", "expiration_date", "expiry">>, StrV(<<>>))
        date == FirstTruthy(row, <<"date", "trade_date">>, StrV(<<>>))
        time == FirstTruthy(row, <<"time", "trade_time">>, StrV(<<>>))
        timeDisplay == buildDisplayTime(date, time, Field(row, "updated"))
        iv == NumberOf(FirstDefined(row, <<"iv", "implied_volatility">>, IntV(0)))
        underlyingPrice ==
            NumberOf(FirstDefined(row, <<"underlying_price", "underlying_price_last",
                                         "underlying_last">>, IntV(0)))
        synthesized ==
            StrV(StringOf(IF JsTruthy(ticker) THEN ticker ELSE StrV(<<"f", "l", "o", "w">>))
                 \o <<"-">>
                 \o StringOf(IF JsTruthy(time) THEN time
                             ELSE IF JsTruthy(Field(row, "updated")) THEN Field(row, "updated")
                             ELSE IntV(now)))
        id == FirstTruthy(row, <<"id", "identifier", "option_symbol">>, synthesized)
        posInSpread == extractFirstFiniteNumber(Candidates(row, PosInSpreadFields))
        priceRelation == extractFirstString(Candidates(row, PriceRelationFields))
        priceRelationLower == ToLowerCase(priceRelation)
        aggressorIndicator ==
            extractFirstAggressorIndicator(Candidates(row, AggressorIndicatorFields))
        aggressorIsAggressiveBuy == isAggressiveBuyIndicator(aggressorIndicator)
        aggressorIsAggressiveSell == isAggressiveSellIndicator(aggressorIndicator)
        atOrAboveAsk ==
            \/ extractFirstBoolean(Candidates(row, AtOrAboveAskFields))
            \/ aggressorIsAggressiveBuy
            \/ /\ priceRelationLower # <<>>
               /\ \E ph \in AskPhrases : Includes(priceRelationLower, ph)
        atOrBelowBid ==
            \/ extractFirstBoolean(Candidates(row, AtOrBelowBidFields))
            \/ aggressorIsAggressiveSell
            \/ /\ priceRelationLower # <<>>
               /\ \E ph \in BidPhrases : Includes(priceRelationLower, ph)
        aggressiveBuy ==
            atOrAboveAsk \/ (IsFiniteNumber(posInSpread) /\ NumGeq(posInSpread.num, AggressiveBuyFrom))
        aggressiveSell ==
            atOrBelowBid \/ (IsFiniteNumber(posInSpread) /\ NumGeq(AggressiveSellUpTo, posInSpread.num))
    IN  [id                  |-> id,
         ticker              |-> ticker,
         type                |-> type,
         side                |-> side,
         sweep               |-> BoolV(sweep),
         premium             |-> NumV(premium),
         trade_price         |-> NumV(tradePrice),
         quantity            |-> NumV(quantity),
         strike              |-> NumV(strike),
         expiry              |-> expiry,
         time                |-> timeDisplay,
         iv                  |-> NumV(iv),
         underlying_price    |-> NumV(underlyingPrice),
         open_interest       |-> NumV(openInterest),
         pos_in_spread       |-> IF IsFiniteNumber(posInSpread) THEN posInSpread ELSE Null,
         price_relation      |-> StrV(priceRelation),
         at_or_above_ask     |-> BoolV(atOrAboveAsk),
         at_or_below_bid     |-> BoolV(atOrBelowBid),
         aggressive_buy      |-> BoolV(aggressiveBuy),
         aggressive_sell     |-> BoolV(aggressiveSell),
         aggressor_indicator |-> IF aggressorIndicator # <<>> THEN StrV(aggressorIndicator)
                                 ELSE Null]

\* now: the reading of Date.now() for the rows (one event-loop turn).
normalizeBenzingaPayload(data, now) ==
    LET rows == PayloadRows(data)
    IN  [i \in 1..Len(rows) |-> NormalizeRow(rows[i], now)]

\* ------------------------------------------------------------------------
\* handleUOARequest: the filters of lines 105-141
\* ------------------------------------------------------------------------
\* normalized.filter(row => Number.isFinite(row.premium) && row.premium >= min)
PremiumPass(row, minPremiumValue) ==
    IsFiniteNumber(row.premium) /\ NumGeq(row.premium.num, minPremiumValue)

premiumFiltered(normalized, filter) ==
    LET hasMinPremiumFilter == ~filter.isNull /\ filter.numericValue.fin
        Keep(row) == PremiumPass(row, filter.numericValue)
    IN  IF hasMinPremiumFilter THEN SelectSeq(normalized, Keep) ELSE normalized

VolumePass(row) ==
    LET quantity == NumberOf(row.quantity)
        openInterest == NumberOf(row.open_interest)
    IN  quantity.fin /\ openInterest.fin /\ NumGt(quantity, openInterest)

\* Mutant: the volume filter keeps every row.
volumeUnfiltered(rows, volumeGtOiFlag) == rows

volumeFiltered(rows, volumeGtOiFlag) ==
    IF volumeGtOiFlag THEN SelectSeq(rows, VolumePass) ELSE rows

\* The canonical row has pos_in_spread only, so the ?? chain of line 120 ends
\* at that field or at undefined.
AggressionPass(row, buyOnly, sellOnly) ==
    LET posInSpread == NumberOf(IF Nullish(row.pos_in_spread) THEN Undefined
                                ELSE row.pos_in_spread)
        hasPosInSpread == posInSpread.fin
        meetsAggressiveBuy ==
            \/ JsTruthy(row.aggressive_buy)
            \/ (row.at_or_above_ask.t = "boolean" /\ row.at_or_above_ask.b)
            \/ (hasPosInSpread /\ NumGeq(posInSpread, AggressiveBuyFrom))
        meetsAggressiveSell ==
            \/ JsTruthy(row.aggressive_sell)
            \/ (row.at_or_below_bid.t = "boolean" /\ row.at_or_below_bid.b)
            \/ (hasPosInSpread /\ NumGeq(AggressiveSellUpTo, posInSpread))
    IN  IF buyOnly /\ sellOnly THEN meetsAggressiveBuy \/ meetsAggressiveSell
        ELSE IF buyOnly THEN meetsAggressiveBuy
        ELSE IF sellOnly THEN meetsAggressiveSell
        ELSE TRUE

\* Mutant: the aggression filter keeps every row.
aggressionUnfiltered(rows, buyOnly, sellOnly) == rows

aggressionFiltered(rows, buyOnly, sellOnly) ==
    LET Keep(row) == AggressionPass(row, buyOnly, sellOnly)
    IN  SelectSeq(rows, Keep)

\* The three filters in the order of the source.
FilterPipeline(normalized, q) ==
    aggressionFiltered(
        volumeFiltered(premiumFiltered(normalized, minPremiumFilter(q)), volumeGtOi(q)),
        aggressiveBuyOnly(q), aggressiveSellOnly(q))

\* ------------------------------------------------------------------------
\* extractUpstreamError
\* ------------------------------------------------------------------------
UpstreamRequestFailed == <<"Upstream request failed">>

UpstreamDecodeFailed == <<"Upstream decode failed">>

\* An element of an errors array: a string, or something else whose .message
\* is a value (undefined when it has none).
ErrString(s) == [isString |-> TRUE, str |-> s, truthy |-> TRUE, message |-> Undefined]

ErrObject(message) == [isString |-> FALSE, str |-> <<>>, truthy |-> TRUE, message |-> message]

\* data: a decoded body; fallback: upstream.statusText
extractUpstreamError(data, fallback) ==
    LET other == OrElse(fallback, UpstreamRequestFailed)
    IN  IF data.kind \notin {"object", "array"} THEN other
        ELSE IF data.error.t = "string" /\ data.error.str # <<>> THEN data.error.str
        ELSE IF data.message.t = "string" /\ data.message.str # <<>> THEN data.message.str
        ELSE IF data.errors.arr /\ Len(data.errors.items) > 0
                /\ data.errors.items[1].isString
             THEN data.errors.items[1].str
        ELSE IF data.errors.arr /\ Len(data.errors.items) > 0
                /\ data.errors.items[1].truthy
                /\ data.errors.items[1].message.t = "string"
             THEN data.errors.items[1].message.str
        ELSE other

\* ------------------------------------------------------------------------
\* Responses
\* ------------------------------------------------------------------------
\* parseInt(s, 10): an optional sign and the longest run of digits after the
\* leading white space; NaN with no digit.
RECURSIVE DigitPrefix(_)
DigitPrefix(s) ==
    IF s # <<>> /\ IsDigit(Head(s)) THEN <<Head(s)>> \o DigitPrefix(Tail(s)) ELSE <<>>

ParseInt(s0) ==
    LET s == TrimStart(s0)
        neg == s # <<>> /\ Head(s) = "-"
        u == IF s # <<>> /\ (Head(s) = "-" \/ Head(s) = "+") THEN Tail(s) ELSE s
        ds == DigitPrefix(u)
    IN  IF ds = <<>> THEN NaN
        ELSE Fin(IF neg THEN 0 - DigitsValue(ds) ELSE DigitsValue(ds), 1)

\* parseInt(env.CACHE_TTL_SECONDS || "30", 10)
ttl(env) == ParseInt(OrElse(env.CACHE_TTL_SECONDS, <<"3", "0">>))

\* The headers of a response: content-type and the three CORS headers always,
\* cache-control on the copy handed to the cache only (JsNull: no such header).
JsonHeaders == [content_type |-> "application/json; charset=utf-8", cors |-> TRUE,
                cache_control |-> JsNull]

CachedHeaders(env) ==
    [JsonHeaders EXCEPT !.cache_control = <<"public, max-age=">> \o NumToString(ttl(env))]

\* JSON.stringify of a value: NaN is written as null.
JsonValue(v) == IF v.t = "number" /\ ~v.num.fin THEN Null ELSE v

JsonRow(row) == [f \in DOMAIN row |-> JsonValue(row[f])]

JsonRows(rows) == [i \in 1..Len(rows) |-> JsonRow(rows[i])]

\* What upstream.json().catch(...) yields when the body is not JSON.
DecodeFailedData == [EmptyObject EXCEPT !.error = StrV(UpstreamDecodeFailed)]

\* An upstream response is [status, statusText, json, data, now]: json says
\* whether the body parses as JSON, data is the parsed body, now the reading of
\* Date.now() while the body is normalized.
UpstreamOk(up) == up.status >= 200 /\ up.status <= 299

\* upstream.json().catch(() => ({ error: "Upstream decode failed" }))
DecodedData(up) == IF up.json THEN up.data ELSE DecodeFailedData

\* const payload = upstream.ok ? {...} : {...}, for the decoded body (data)
\* and the rows the filters left (filtered).
Payload(q, up, data, filtered) ==
    IF UpstreamOk(up)
    THEN [ok            |-> TRUE,
          source_status |-> up.status,
          page          |-> JsonValue(NumV(ToNumber(page(q)))),
          page_size     |-> JsonValue(NumV(ToNumber(pageSize(q)))),
          count         |-> Len(filtered),
          results       |-> JsonRows(filtered)]
    ELSE [ok            |-> FALSE,
          source_status |-> up.status,
          error         |-> extractUpstreamError(data, up.statusText),
          error_details |-> IF data.kind \in {"object", "array", "null"} THEN data
                            ELSE [raw |-> data]]

\* const normalized = upstream.ok ? normalizeBenzingaPayload(data) : []
Normalized(up) ==
    IF UpstreamOk(up) THEN normalizeBenzingaPayload(DecodedData(up), up.now) ELSE <<>>

\* The body of the response to a cache miss: JSON.stringify(payload).
MissBody(q, up) == Payload(q, up, DecodedData(up), FilterPipeline(Normalized(up), q))

\* res = new Response(body, { status, headers })
MissResponse(q, up) ==
    [status  |-> IF UpstreamOk(up) THEN 200 ELSE up.status,
     headers |-> JsonHeaders,
     body    |-> MissBody(q, up)]

\* Mutant: every response whose body decoded is cached.
ShouldCacheDecoded(up) == up.json

\* Mutant: every response is cached.
ShouldCacheAlways(up) == TRUE

\* if (upstream.ok) ctx.waitUntil(cache.put(cacheKey, cachedCopy))
ShouldCache(up) == UpstreamOk(up)

\* json({ error: "Missing BENZINGA_API_KEY secret" }, 500, corsHeaders())
MissingKeyResponse ==
    [status  |-> 500,
     headers |-> JsonHeaders,
     body    |-> [error |-> <<"Missing BENZINGA_API_KEY secret">>]]

NoResponse == [status |-> 0, headers |-> JsonHeaders, body |-> [none |-> TRUE]]

\* ------------------------------------------------------------------------
\* Inputs of the request handler
\* ------------------------------------------------------------------------
NoEnv == [BENZINGA_API_KEY |-> JsNull, BENZINGA_USE_AUTH_HEADER |-> JsNull,
          BENZINGA_BASE_URL |-> JsNull, CACHE_TTL_SECONDS |-> JsNull]

\* A deployment with its secret, and one whose secret is missing.
EnvWithKey == [NoEnv EXCEPT !.BENZINGA_API_KEY = <<"k", "1">>]

Envs == {EnvWithKey, NoEnv}

\* ?tickers=A&min_premium=$5&volume_gt_oi=true
QueryVolume ==
    [EmptyQuery EXCEPT !["tickers"] = <<"A">>, !["min_premium"] = <<"$", "5">>,
                       !["volume_gt_oi"] = TrueStr]

\* the same without the volume flag
QueryPlain == [QueryVolume EXCEPT !["volume_gt_oi"] = JsNull]

Queries == {QueryVolume, QueryPlain}

\* ?tickers=%20A&min_total_trade_value=5&volumeGtOi=TRUE&page_number=1&limit=50:
\* what QueryVolume asks, written otherwise
QuerySpelled ==
    [EmptyQuery EXCEPT !["tickers"] = <<" ", "A">>, !["min_total_trade_value"] = <<"5">>,
                       !["volumeGtOi"] = <<"T", "R", "U", "E">>,
                       !["page_number"] = <<"1">>, !["limit"] = <<"5", "0">>]

\* QueryVolume with the minimum premium 8
QueryDearer == [QueryVolume EXCEPT !["min_premium"] = <<"8">>]

\* Requests of which two share their key and the third differs in a parameter.
CoherenceQueries == {QueryVolume, QuerySpelled, QueryDearer}

CoherenceEnvs == {EnvWithKey}

\* {ticker:"A", sentiment:"bullish", total_trade_value:7, size:5, open_interest:1, sweep:true}
RowBig ==
    [ticker |-> StrV(<<"A">>), sentiment |-> StrV(<<"b", "u", "l", "l", "i", "s", "h">>),
     total_trade_value |-> IntV(7), size |-> IntV(5), open_interest |-> IntV(1),
     sweep |-> BoolV(TRUE)]

\* a row whose size is below its open interest
RowSmall ==
    [id |-> StrV(<<"x", "2">>), symbol |-> StrV(<<"A">>), premium |-> StrV(<<"6">>),
     quantity |-> IntV(1), oi |-> IntV(4), pos_in_spread |-> NumV(Fin(1, 10))]

\* 200 {data: [RowBig, RowSmall]}
UpRows ==
    [status |-> 200, statusText |-> <<"OK">>, json |-> TRUE,
     data |-> [EmptyObject EXCEPT !.data = [NoObject EXCEPT !.arr = TRUE,
                                                            !.items = <<RowBig, RowSmall>>]],
     now |-> 1000]

\* 200 with a body that is no JSON
UpOkNotJson == [UpRows EXCEPT !.json = FALSE, !.data = JsonNull]

\* 429 {message: "rate limited"}
UpRateLimited ==
    [status |-> 429, statusText |-> <<"Too Many Requests">>, json |-> TRUE,
     data |-> [EmptyObject EXCEPT !.message = StrV(<<"rate limited">>)],
     now |-> 1000]

\* 502 with an HTML body
UpBadGateway ==
    [status |-> 502, statusText |-> <<"Bad Gateway">>, json |-> FALSE, data |-> JsonNull,
     now |-> 1000]

UpstreamResponses == {UpRows, UpOkNotJson, UpRateLimited, UpBadGateway}

NoUpstream == [status |-> 0, statusText |-> <<>>, json |-> FALSE, data |-> JsonNull, now |-> 0]

\* ------------------------------------------------------------------------
\* State
\* ------------------------------------------------------------------------
VARIABLES
    calls,     \* the calls of handleUOARequest in progress, a bag of call records
    cache,     \* caches.default: entries [key, res, upstreamOk, q, up] (q and up:
               \* the query and upstream response it was made of), one per key at most
    pending,   \* the cache.put calls handed to ctx.waitUntil, not yet completed
    done,      \* the call that ended last, with what it did
    follow,    \* where the call that follows a failed one has got to
    reqA,      \* key construction on its own: the arguments of one request,
    reqB,      \* those of another,
    keys,      \* the cache keys built for the two (none before they are built),
    urls,      \* and the URLs handed to fetch for the two
    rowBatch,     \* normalization on its own: the rows of a decoded upstream body,
    rowQuery,  \* the query of the request they are filtered for,
    rowNormalized, \* the canonical records made of them (none before that),
    rowResults,   \* and the results of the envelope: what the filters left of those
    numericIn, \* normalizeNumericFilter on its own: its argument
    numericOut, \* and what it returned
    errorIn,   \* extractUpstreamError on its own: its arguments [data, fallback]
    errorOut   \* and what it returned

mainVars == <<calls, cache, pending, done, follow>>

keyVars == <<reqA, reqB, keys, urls>>

rowVars == <<rowBatch, rowQuery, rowNormalized, rowResults>>

numericVars == <<numericIn, numericOut>>

errorVars == <<errorIn, errorOut>>

\* What the calls of handleUOARequest leave alone.
pureVars == <<keyVars, rowVars, numericVars, errorVars>>

vars == <<mainVars, keyVars, rowVars, numericVars, errorVars>>

\* A call in progress: its position (match: awaiting cache.match; fetch:
\* awaiting fetch), its arguments, how many times it has called cache.match
\* and fetch, whether a cache.put for its key has completed since its
\* cache.match returned, and the entries the cache held under its key when
\* cache.match returned.  Calls in the same position with the same arguments
\* are interchangeable, hence a bag.
NewCall(q, env) ==
    [pc |-> "match", q |-> q, env |-> env, lookups |-> 1, fetches |-> 0, dirty |-> FALSE,
     held |-> {}]

\* An ended call: how it ended (config: no credential; hit; miss; thrown: the
\* call rejected), its arguments, the upstream response it got, the response
\* it returned, the cache entries its key had when cache.match returned, the
\* cache.put calls it scheduled, its counts of cache.match and fetch calls, and
\* whether a cache.put for its key completed while it awaited its fetch.
NoCall == [kind |-> "none", q |-> EmptyQuery, env |-> NoEnv, up |-> NoUpstream,
           res |-> NoResponse, held |-> {}, scheduled |-> {}, lookups |-> 0, fetches |-> 0,
           dirty |-> FALSE]

\* The call that follows a failed one at once: nothing happens between the
\* failed call's return and the follower's cache.match but the follower's
\* arrival and the completion of cache.put calls of the failed call itself.
\* st is none, failed (a call just failed), arrived (a call with the same
\* arguments arrived next) or looked (its cache.match returned next: hit says
\* what it found); dirty is the failed call's dirty, own its scheduled puts.
NoFollow == [st |-> "none", q |-> EmptyQuery, env |-> NoEnv, dirty |-> FALSE, own |-> {},
             hit |-> FALSE]

NoRequest == [q |-> EmptyQuery, env |-> NoEnv]

MainInit ==
    /\ calls = EmptyBag
    /\ cache = {}
    /\ pending = {}
    /\ done = NoCall
    /\ follow = NoFollow

\* rowNormalized is [made, rows] and rowResults [made, body]: made says
\* whether the step has been taken.
NotNormalized == [made |-> FALSE, rows |-> <<>>]

NotAnswered == [made |-> FALSE, body |-> [none |-> TRUE]]

\* numericOut is [made, filter] and errorOut [made, error] in the same way.
NotSanitized == [made |-> FALSE, filter |-> NoFilter]

NotExtracted == [made |-> FALSE, error |-> <<>>]

\* Nothing drawn or computed yet in the parts of the state that hold a
\* function on its own.
KeyIdle ==
    /\ reqA = NoRequest
    /\ reqB = NoRequest
    /\ keys = <<>>
    /\ urls = <<>>

RowIdle ==
    /\ rowBatch = <<>>
    /\ rowQuery = EmptyQuery
    /\ rowNormalized = NotNormalized
    /\ rowResults = NotAnswered

NumericIdle ==
    /\ numericIn = JsNull
    /\ numericOut = NotSanitized

ErrorIdle ==
    /\ errorIn = [data |-> JsonNull, fallback |-> <<>>]
    /\ errorOut = NotExtracted

Init ==
    /\ MainInit
    /\ KeyIdle
    /\ RowIdle
    /\ NumericIdle
    /\ ErrorIdle

\* The keys, responses and cached headers of the requests of the model, each
\* computed once and kept as a table of tuples.
Requests == [q : Queries \cup CoherenceQueries, env : Envs]

KeyTable == {<<x, cacheKey(x.q, x.env)>> : x \in Requests}

CallKey(c) == (CHOOSE p \in KeyTable : p[1] = [q |-> c.q, env |-> c.env])[2]

ResponseTable ==
    {<<q, up, MissResponse(q, up)>> : q \in Queries \cup CoherenceQueries,
                                     up \in UpstreamResponses}

ResponseOf(q, up) == (CHOOSE p \in ResponseTable : p[1] = q /\ p[2] = up)[3]

CachedHeadersTable == {<<env, CachedHeaders(env)>> : env \in Envs}

CachedHeadersOf(env) == (CHOOSE p \in CachedHeadersTable : p[1] = env)[2]

\* The entries the cache holds under the key.
Held(key) == {e \in cache : e.key = key}

\* cache.match(cacheKey): the responses the call may get, none on a miss
CacheMatch(key) == {e \in cache : e.key = key}

\* Mutant: a hit is answered with a response rebuilt around the cached body.
HitResponseRebuilt(e) == [e.res EXCEPT !.headers = JsonHeaders]

\* Line 174 after a hit: the response cache.match gave is returned as it is.
HitResponse(e) == e.res

\* The bag b with one call c replaced by the call d.
Replace(b, c, d) == (b (-) SetToBag({c})) (+) SetToBag({d})

\* What a call that ends records of itself.
Ended(c, kind) ==
    [NoCall EXCEPT !.kind = kind, !.q = c.q, !.env = c.env, !.held = c.held,
                   !.lookups = c.lookups, !.fetches = c.fetches, !.dirty = c.dirty]

\* ------------------------------------------------------------------------
\* handleUOARequest, one action per stretch between two awaits
\* ------------------------------------------------------------------------
\* Lines 45-97: a call arrives, parses its query, builds the upstream URL,
\* checks the credential and, with one, calls cache.match.
Arrive(q, env) ==
    /\ BagCardinality(calls) < MaxInFlight
    /\ IF CredentialMissing(env)
       THEN /\ done' = [NoCall EXCEPT !.kind = "config", !.q = q, !.env = env,
                                      !.res = MissingKeyResponse]
            /\ UNCHANGED calls
            /\ follow' = NoFollow
       ELSE /\ calls' = calls (+) SetToBag({NewCall(q, env)})
            /\ follow' = IF follow.st = "failed" /\ follow.q = q /\ follow.env = env
                         THEN [follow EXCEPT !.st = "arrived"]
                         ELSE NoFollow
            /\ UNCHANGED done
    /\ UNCHANGED <<cache, pending>>
    /\ UNCHANGED pureVars

\* What the follower of a failed call found, when this cache.match is its own.
Looked(c, hit) ==
    IF follow.st = "arrived" /\ follow.q = c.q /\ follow.env = c.env
    THEN [follow EXCEPT !.st = "looked", !.hit = hit]
    ELSE NoFollow

\* Lines 97-98 and 174: cache.match returns a response, which is returned.
MatchHit(c) ==
    /\ BagIn(c, calls) /\ c.pc = "match"
    /\ \E key \in {CallKey(c)} :
          /\ CacheMatch(key) # {}
          /\ \E e \in CacheMatch(key) :
                done' = [Ended(c, "hit") EXCEPT !.res = HitResponse(e), !.held = Held(key)]
    /\ calls' = calls (-) SetToBag({c})
    /\ follow' = Looked(c, TRUE)
    /\ UNCHANGED <<cache, pending>>
    /\ UNCHANGED pureVars

\* Lines 97-102: cache.match returns nothing and the call fetches upstream.
MatchMiss(c) ==
    /\ BagIn(c, calls) /\ c.pc = "match"
    /\ \E key \in {CallKey(c)} :
          /\ CacheMatch(key) = {}
          /\ calls' = Replace(calls, c, [c EXCEPT !.pc = "fetch", !.fetches = @ + 1,
                                                  !.held = Held(key)])
    /\ follow' = Looked(c, FALSE)
    /\ UNCHANGED <<cache, pending, done>>
    /\ UNCHANGED pureVars

\* The cache.put calls a miss schedules for the upstream response up.
Scheduled(c, up, res) ==
    IF ShouldCache(up)
    THEN {[key |-> CallKey(c),
           res |-> [res EXCEPT !.headers = CachedHeadersOf(c.env)],
           upstreamOk |-> UpstreamOk(up),
           q |-> c.q,
           up |-> up]}
    ELSE {}

\* Lines 99-174: fetch resolves with the response up; the body is decoded,
\* normalized and filtered, the envelope built, the cache.put of a success
\* scheduled, and the response returned.
Respond(c, up) ==
    /\ BagIn(c, calls) /\ c.pc = "fetch"
    /\ \E res \in {ResponseOf(c.q, up)} : \E puts \in {Scheduled(c, up, res)} :
          /\ Cardinality(pending \cup puts) <= MaxPending
          /\ pending' = pending \cup puts
          /\ done' = [Ended(c, "miss") EXCEPT !.up = up, !.res = res, !.scheduled = puts]
          /\ follow' = IF UpstreamOk(up) THEN NoFollow
                       ELSE [NoFollow EXCEPT !.st = "failed", !.q = c.q, !.env = c.env,
                                             !.dirty = c.dirty, !.own = puts]
    /\ calls' = calls (-) SetToBag({c})
    /\ UNCHANGED cache
    /\ UNCHANGED pureVars

\* Line 99: fetch rejects (the upstream cannot be reached); nothing catches
\* the rejection, so the call rejects with it and returns no response.
FetchReject(c) ==
    /\ BagIn(c, calls) /\ c.pc = "fetch"
    /\ done' = Ended(c, "thrown")
    /\ calls' = calls (-) SetToBag({c})
    /\ follow' = NoFollow
    /\ UNCHANGED <<cache, pending>>
    /\ UNCHANGED pureVars

\* The calls after a cache.put for key has completed: those awaiting their
\* fetch with that key have seen the cache change since their cache.match.
RECURSIVE Dirtied(_, _, _)
Dirtied(b, todo, key) ==
    IF todo = {} THEN b
    ELSE LET c == CHOOSE x \in todo : TRUE
             n == CopiesIn(c, b)
             d == [c EXCEPT !.dirty = TRUE]
         IN  IF c.pc = "fetch" /\ CallKey(c) = key /\ ~c.dirty
             THEN Dirtied([x \in (DOMAIN b \ {c}) \cup {d} |->
                              IF x = d THEN n + CopiesIn(d, b) ELSE b[x]],
                          todo \ {c, d}, key)
             ELSE Dirtied(b, todo \ {c}, key)

\* Mutant: a cache.put leaves alone a key that has an entry.
CachePutFirstWins(e) ==
    /\ e \in pending
    /\ pending' = pending \ {e}
    /\ cache' = IF Held(e.key) # {} THEN cache ELSE cache \cup {e}
    /\ calls' = Dirtied(calls, BagToSet(calls), e.key)
    /\ follow' = IF follow.st \in {"failed", "arrived"} /\ e \in follow.own
                 THEN follow ELSE NoFollow
    /\ UNCHANGED done
    /\ UNCHANGED pureVars

\* Line 171: a scheduled cache.put completes; the entry replaces what the key had.
CachePut(e) ==
    /\ e \in pending
    /\ pending' = pending \ {e}
    /\ cache' = {c \in cache : c.key # e.key} \cup {e}
    /\ calls' = Dirtied(calls, BagToSet(calls), e.key)
    /\ follow' = IF follow.st \in {"failed", "arrived"} /\ e \in follow.own
                 THEN follow ELSE NoFollow
    /\ UNCHANGED done
    /\ UNCHANGED pureVars

\* The cache store drops an entry whose max-age has passed.
Expire(e) ==
    /\ e \in cache
    /\ cache' = cache \ {e}
    /\ follow' = NoFollow
    /\ UNCHANGED <<calls, pending, done>>
    /\ UNCHANGED pureVars

Next ==
    \/ \E q \in Queries, env \in Envs : Arrive(q, env)
    \/ \E c \in BagToSet(calls) : MatchHit(c)
    \/ \E c \in BagToSet(calls) : MatchMiss(c)
    \/ \E c \in BagToSet(calls), up \in UpstreamResponses : Respond(c, up)
    \/ \E c \in BagToSet(calls) : FetchReject(c)
    \/ \E e \in pending : CachePut(e)
    \/ \E e \in cache : Expire(e)

Spec == Init /\ [][Next]_vars

\* ------------------------------------------------------------------------
\* The handler under requests that share a cache key
\* ------------------------------------------------------------------------
\* Upstream rows, or a refusal.
CoherenceUpstream == {UpRows, UpRateLimited}

CoherenceNext ==
    \/ \E q \in CoherenceQueries, env \in CoherenceEnvs : Arrive(q, env)
    \/ \E c \in BagToSet(calls) : MatchHit(c)
    \/ \E c \in BagToSet(calls) : MatchMiss(c)
    \/ \E c \in BagToSet(calls), up \in CoherenceUpstream : Respond(c, up)
    \/ \E c \in BagToSet(calls) : FetchReject(c)
    \/ \E e \in pending : CachePut(e)
    \/ \E e \in cache : Expire(e)

CoherenceSpec == Init /\ [][CoherenceNext]_vars

\* ------------------------------------------------------------------------
\* Key construction on its own: two requests are drawn and their keys built
\* ------------------------------------------------------------------------
\* ?tickers=..&min_premium=..&page=.. with the flags written under the names
\* given: every combination of the values below.
KeyEnvs == {EnvWithKey, [EnvWithKey EXCEPT !.BENZINGA_USE_AUTH_HEADER = TrueStr]}

KeyQueries ==
    {[EmptyQuery EXCEPT !["tickers"] = t, !["min_premium"] = m, !["volume_gt_oi"] = v,
                        !["volumeGtOi"] = va, !["aggressive_buy_only"] = b,
                        !["aggressiveSellOnly"] = sl, !["page_number"] = pg] :
        t \in {<<"A">>, <<" ", "A">>},
        m \in {JsNull, <<"$", "5">>, <<"5">>},
        v \in {JsNull, TrueStr},
        va \in {JsNull, <<"T", "R", "U", "E">>},
        b \in {JsNull, TrueStr},
        sl \in {JsNull, TrueStr},
        pg \in {<<"1">>}}

KeyInit ==
    /\ MainInit
    /\ reqA \in [q : KeyQueries, env : KeyEnvs]
    /\ reqB \in [q : KeyQueries, env : KeyEnvs]
    /\ keys = <<>>
    /\ urls = <<>>
    /\ RowIdle
    /\ NumericIdle
    /\ ErrorIdle

\* Lines 72-94 for each of the two requests.
BuildKeys ==
    /\ keys = <<>>
    /\ keys' = <<cacheKey(reqA.q, reqA.env), cacheKey(reqB.q, reqB.env)>>
    /\ urls' = <<fetchUrl(reqA.q, reqA.env), fetchUrl(reqB.q, reqB.env)>>
    /\ UNCHANGED <<reqA, reqB>>
    /\ UNCHANGED <<mainVars, rowVars, numericVars, errorVars>>

KeyNext == BuildKeys

KeySpec == KeyInit /\ [][KeyNext]_vars

\* ------------------------------------------------------------------------
\* Normalization and the filters on their own: a batch of upstream rows is
\* drawn, normalized, and answered for a query
\* ------------------------------------------------------------------------
MaxRows == 2

\* {ticker:"A", cost_basis:75000, size:500, open_interest:100, sweep:true}
RowExample ==
    [ticker |-> StrV(<<"A">>), cost_basis |-> IntV(75000), size |-> IntV(500),
     open_interest |-> IntV(100), sweep |-> BoolV(TRUE)]

\* {ticker:"A", time:"10:00"}: no identity field, no number, no signal
RowBare == [ticker |-> StrV(<<"A">>), time |-> StrV(<<"1", "0", ":", "0", "0">>)]

\* {ticker:"A", time:"10:00", size:2}: another trade of that ticker at that time
RowBareTwo == [RowBare EXCEPT !.ticker = StrV(<<"A">>)] @@ [size |-> IntV(2)]

\* {id:"n1", cost_basis:"abc", premium:75000, size:"", oi:3}
RowNoisy ==
    [id |-> StrV(<<"n", "1">>), cost_basis |-> StrV(<<"a", "b", "c">>),
     premium |-> IntV(75000), size |-> StrV(<<>>), oi |-> IntV(3)]

\* {id:"s0", pos_in_spread:null, posInSpread:""}
RowNullSpread ==
    [id |-> StrV(<<"s", "0">>), pos_in_spread |-> Null, posInSpread |-> StrV(<<>>)]

\* {id:"s8", pos_in_spread:"n/a", position_in_spread:0.8}
RowHighSpread ==
    [id |-> StrV(<<"s", "8">>), pos_in_spread |-> StrV(<<"n", "/", "a">>),
     position_in_spread |-> NumV(Fin(8, 10))]

\* {id:"a1", premium:60000, aggressor_ind:"at ask"}
RowAtAsk ==
    [id |-> StrV(<<"a", "1">>), premium |-> IntV(60000),
     aggressor_ind |-> StrV(<<"a", "t", " ", "a", "s", "k">>)]

\* {id:"b1", price_relation:"Below Bid", quantity:9, oi:2}
RowAtBid ==
    [id |-> StrV(<<"b", "1">>),
     price_relation |-> StrV(<<"B", "e", "l", "o", "w", " ", "B", "i", "d">>),
     quantity |-> IntV(9), oi |-> IntV(2)]

\* {id:"m5", pos_in_spread:0.5}: in the middle of the spread
RowMidSpread == [id |-> StrV(<<"m", "5">>), pos_in_spread |-> NumV(Fin(5, 10))]

\* {id:"q2", positionInSpread:"0.25"}: on the limit of an aggressive sell
RowQuarterSpread ==
    [id |-> StrV(<<"q", "2">>), positionInSpread |-> StrV(<<"0", ".", "2", "5">>)]

RawRows == {RowExample, RowBare, RowBareTwo, RowSmall, RowNoisy, RowNullSpread, RowHighSpread,
            RowAtAsk, RowAtBid, RowMidSpread, RowQuarterSpread}

RECURSIVE SeqsUpTo(_, _)
SeqsUpTo(S, n) ==
    IF n = 0 THEN {<<>>}
    ELSE SeqsUpTo(S, n - 1) \cup {Append(b, x) : b \in SeqsUpTo(S, n - 1), x \in S}

\* ?min_premium=..&volume_gt_oi=..&aggressive_buy_only=..&aggressive_sell_only=..
RowQueries ==
    {[EmptyQuery EXCEPT !["min_premium"] = m, !["volume_gt_oi"] = v,
                        !["aggressive_buy_only"] = b, !["aggressive_sell_only"] = sl] :
        m \in {JsNull, <<"5", "0", "0", "0", "0">>, <<"1", "0", "0", "0", "0", "0">>},
        v \in {JsNull, TrueStr},
        b \in {JsNull, TrueStr},
        sl \in {JsNull, TrueStr}}

\* 200 with the rows as the body, read at the time 1000
BatchResponse(rows) == [UpRows EXCEPT !.data = JsonArray(rows)]

RowInit ==
    /\ MainInit
    /\ KeyIdle
    /\ rowBatch \in SeqsUpTo(RawRows, MaxRows)
    /\ rowQuery = EmptyQuery
    /\ rowNormalized = NotNormalized
    /\ rowResults = NotAnswered
    /\ NumericIdle
    /\ ErrorIdle

\* Line 104: normalizeBenzingaPayload(data)
NormalizeBatch ==
    /\ ~rowNormalized.made
    /\ rowNormalized' = [made |-> TRUE,
                         rows |-> normalizeBenzingaPayload(JsonArray(rowBatch), UpRows.now)]
    /\ UNCHANGED <<rowBatch, rowQuery, rowResults>>
    /\ UNCHANGED <<mainVars, keyVars, numericVars, errorVars>>

\* Lines 103-163 for the query q: the body of the response.
AnswerBatch(q) ==
    /\ rowNormalized.made
    /\ ~rowResults.made
    /\ rowQuery' = q
    /\ rowResults' = [made |-> TRUE, body |-> MissBody(q, BatchResponse(rowBatch))]
    /\ UNCHANGED <<rowBatch, rowNormalized>>
    /\ UNCHANGED <<mainVars, keyVars, numericVars, errorVars>>

RowNext ==
    \/ NormalizeBatch
    \/ \E q \in RowQueries : AnswerBatch(q)

RowSpec == RowInit /\ [][RowNext]_vars

\* ------------------------------------------------------------------------
\* normalizeNumericFilter on its own: an argument is drawn and sanitized
\* ------------------------------------------------------------------------
MaxLen == 3

\* Digits, the point, the signs, and noise: a currency sign, a separator, a
\* space and a letter.
NumericAlphabet == {"5", "0", ".", "-", "+", "$", ",", " ", "a"}

\* "$50,000"
DollarFiftyThousand == <<"$", "5", "0", ",", "0", "0", "0">>

\* undefined/null, every string over the alphabet up to MaxLen, and "$50,000"
NumericInputs == {JsNull, DollarFiftyThousand} \cup SeqsUpTo(NumericAlphabet, MaxLen)

NumericInit ==
    /\ MainInit
    /\ KeyIdle
    /\ RowIdle
    /\ numericIn \in NumericInputs
    /\ numericOut = NotSanitized
    /\ ErrorIdle

\* Line 50: normalizeNumericFilter(minPremiumRaw)
Sanitize ==
    /\ ~numericOut.made
    /\ numericOut' = [made |-> TRUE, filter |-> normalizeNumericFilter(numericIn)]
    /\ UNCHANGED numericIn
    /\ UNCHANGED <<mainVars, keyVars, rowVars, errorVars>>

NumericNext == Sanitize

NumericSpec == NumericInit /\ [][NumericNext]_vars

\* ------------------------------------------------------------------------
\* The failure envelope on its own: a failed upstream response is drawn and
\* its error extracted
\* ------------------------------------------------------------------------
MaxErrors == 2

\* Elements of an errors array: "", "e1", {message: ""}, {message: "m1"}, {}
ErrorElements ==
    {ErrString(<<>>), ErrString(<<"e1">>), ErrObject(StrV(<<>>)), ErrObject(StrV(<<"m1">>)),
     ErrObject(Undefined)}

\* {error: .., message: .., errors: ..}, each absent or of some value
ErrorBodies ==
    {[EmptyObject EXCEPT !.error = e, !.message = m, !.errors = a] :
        e \in {Undefined, StrV(<<>>), StrV(<<"bad key">>), IntV(5)},
        m \in {Undefined, StrV(<<>>), StrV(<<"rate limited">>)},
        a \in {NotArray} \cup {ArrayOf(items) : items \in SeqsUpTo(ErrorElements, MaxErrors)}}

\* upstream.statusText: empty over HTTP/2
StatusTexts == {<<>>, <<"Too Many Requests">>}

\* 429 with the body and the status text drawn
FailedResponse(in) ==
    [status |-> 429, statusText |-> in.fallback, json |-> TRUE, data |-> in.data, now |-> 1000]

ErrorInit ==
    /\ MainInit
    /\ KeyIdle
    /\ RowIdle
    /\ NumericIdle
    /\ errorIn \in [data : ErrorBodies \cup {JsonNull}, fallback : StatusTexts]
    /\ errorOut = NotExtracted

\* Lines 152-157: the error of the failure envelope
ExtractError ==
    /\ ~errorOut.made
    /\ errorOut' = [made |-> TRUE,
                    error |-> MissBody(EmptyQuery, FailedResponse(errorIn)).error]
    /\ UNCHANGED errorIn
    /\ UNCHANGED <<mainVars, keyVars, rowVars, numericVars>>

ErrorNext == ExtractError

ErrorSpec == ErrorInit /\ [][ErrorNext]_vars

\* ------------------------------------------------------------------------
\* Properties
\* ------------------------------------------------------------------------
SuccessKeys == {"ok", "source_status", "page", "page_size", "count", "results"}

FailureKeys == {"ok", "source_status", "error", "error_details"}

IsSuccessEnvelope(body) == DOMAIN body = SuccessKeys /\ body.ok = TRUE

IsFailureEnvelope(body) == DOMAIN body = FailureKeys /\ body.ok = FALSE

\* env has no usable BENZINGA_API_KEY (undefined or the empty string).
KeyAbsent(env) == env.BENZINGA_API_KEY = JsNull \/ env.BENZINGA_API_KEY = <<>>

\* C1: every cache entry, stored or scheduled, was written from a success
\* envelope of an upstream response that reported success; a call whose upstream
\* response reported failure schedules no cache.put.
C1_OnlySuccessCached ==
    /\ \A e \in cache \cup pending : e.upstreamOk /\ IsSuccessEnvelope(e.res.body)
    /\ (done.kind = "miss" /\ ~UpstreamOk(done.up)) => done.scheduled = {}

\* C1 witness: a call has ended on an upstream failure while the cache holds an entry.
C1_Witness == done.kind = "miss" /\ ~UpstreamOk(done.up) /\ cache # {}

\* C2: a call whose key had an entry when cache.match returned ends as a hit,
\* returns the response of that entry as stored, and has made no fetch and
\* scheduled no cache.put; a call that goes on to fetch had found no entry.
C2_HitReturnsCachedVerbatim ==
    /\ done.held # {} =>
          /\ done.kind = "hit"
          /\ \E e \in done.held : done.res = e.res
          /\ done.fetches = 0
          /\ done.scheduled = {}
    /\ \A c \in BagToSet(calls) : c.pc = "fetch" => c.held = {}

\* C2 witness: a call has ended as a cache hit.
C2_Witness == done.kind = "hit" /\ done.held # {}

\* The upstream parameters of a request, each as the handler derives it.
SameUpstreamParameters(a, b) ==
    /\ tickers(a.q) = tickers(b.q)
    /\ sentiment(a.q) = sentiment(b.q)
    /\ minPremium(a.q) = minPremium(b.q)
    /\ sweepOnly(a.q) = sweepOnly(b.q)
    /\ dateFrom(a.q) = dateFrom(b.q)
    /\ dateTo(a.q) = dateTo(b.q)
    /\ page(a.q) = page(b.q)
    /\ pageSize(a.q) = pageSize(b.q)
    /\ (IF useHeaderAuth(a.env) THEN JsNull ELSE a.env.BENZINGA_API_KEY)
         = (IF useHeaderAuth(b.env) THEN JsNull ELSE b.env.BENZINGA_API_KEY)
    /\ a.env.BENZINGA_BASE_URL = b.env.BENZINGA_BASE_URL

SameLocalFlags(a, b) ==
    /\ volumeGtOi(a.q) = volumeGtOi(b.q)
    /\ aggressiveBuyOnly(a.q) = aggressiveBuyOnly(b.q)
    /\ aggressiveSellOnly(a.q) = aggressiveSellOnly(b.q)

\* C3: two requests with the same upstream parameters that differ in one or
\* more of the three local-only flags get different cache keys.
C3_FlagsSeparateKeys ==
    (keys # <<>> /\ SameUpstreamParameters(reqA, reqB) /\ ~SameLocalFlags(reqA, reqB))
        => keys[1] # keys[2]

\* C3 witness: keys were built for two requests that differ in the
\* aggressive-sell flag alone.
C3_Witness ==
    /\ keys # <<>>
    /\ SameUpstreamParameters(reqA, reqB)
    /\ volumeGtOi(reqA.q) = volumeGtOi(reqB.q)
    /\ aggressiveBuyOnly(reqA.q) = aggressiveBuyOnly(reqB.q)
    /\ aggressiveSellOnly(reqA.q) # aggressiveSellOnly(reqB.q)

\* C4: two requests with the same upstream parameters and the same local-only
\* flags get the same cache key, however their queries were written.
C4_SameParametersSameKey ==
    (keys # <<>> /\ SameUpstreamParameters(reqA, reqB) /\ SameLocalFlags(reqA, reqB))
        => keys[1] = keys[2]

\* C4 witness: keys were built for two requests whose queries are written
\* differently (the minimum premium as "$5" and as "5") with the same
\* parameters and flags.
C4_Witness ==
    /\ keys # <<>>
    /\ SameUpstreamParameters(reqA, reqB) /\ SameLocalFlags(reqA, reqB)
    /\ reqA.q["min_premium"] = <<"$", "5">> /\ reqB.q["min_premium"] = <<"5">>

\* C5: a call without the credential ends at once with status 500, having
\* called neither cache.match nor fetch and scheduled no cache.put; no call
\* without the credential is ever in progress.
C5_MissingCredentialEndsWith500 ==
    /\ (done.kind # "none" /\ KeyAbsent(done.env)) =>
          /\ done.kind = "config"
          /\ done.res.status = 500
          /\ done.lookups = 0 /\ done.fetches = 0 /\ done.scheduled = {}
    /\ \A c \in BagToSet(calls) : ~KeyAbsent(c.env)

\* C5 witness: a call without the credential has ended while the cache holds an entry.
C5_Witness == done.kind = "config" /\ KeyAbsent(done.env) /\ cache # {}

\* C6 (as claimed): every response is a success envelope when its status is
\* 200 and a failure envelope otherwise.
C6_EveryResponseIsAnEnvelope ==
    done.kind \in {"config", "hit", "miss"} =>
        IF done.res.status = 200 THEN IsSuccessEnvelope(done.res.body)
        ELSE IsFailureEnvelope(done.res.body)

\* C7 (as claimed): no call ends by throwing; every ended call returned a response.
C7_NothingThrown == done.kind # "none" => (done.kind # "thrown" /\ done.res # NoResponse)

\* C8 (as claimed): a call whose upstream body is no JSON returns a failure
\* envelope with the generic message and schedules no cache.put.
C8_NonJsonIsFailure ==
    (done.kind = "miss" /\ ~done.up.json) =>
        /\ IsFailureEnvelope(done.res.body)
        /\ done.res.body.error = UpstreamDecodeFailed
        /\ done.scheduled = {}

\* A call with the follower's arguments is awaiting its first fetch.
FollowerFetches ==
    \E c \in BagToSet(calls) :
        c.pc = "fetch" /\ c.q = follow.q /\ c.env = follow.env /\ c.fetches = 1

C10_OneAttemptAndAResponse ==
    done.kind \in {"hit", "miss", "thrown"} =>
        /\ done.res # NoResponse
        /\ done.lookups = 1
        /\ done.fetches = (IF done.kind = "hit" THEN 0 ELSE 1)

\* A canonical record passes every filter the query q enables.
PassesEnabledFilters(row, q) ==
    /\ ~minPremiumFilter(q).isNull => PremiumPass(row, minPremiumFilter(q).numericValue)
    /\ volumeGtOi(q) => VolumePass(row)
    /\ AggressionPass(row, aggressiveBuyOnly(q), aggressiveSellOnly(q))

KeptRows(rows, q) ==
    LET Keep(row) == PassesEnabledFilters(row, q)
    IN  SelectSeq(rows, Keep)

\* The query asks for a minimum premium of text and the volume filter alone.
PremiumAndVolumeQuery(q, text) ==
    /\ minPremium(q) = text
    /\ volumeGtOi(q) /\ ~aggressiveBuyOnly(q) /\ ~aggressiveSellOnly(q)

\* C11: the results of a success envelope are the normalized records that pass
\* every enabled filter, in their order, and count is their number; the record
\* with premium 75000, quantity 500 and open interest 100 gives count 1 under a
\* minimum premium of 50000 with the volume filter, and count 0 under 100000.
C11_ResultsAreTheFilteredRecords ==
    rowResults.made =>
        /\ rowResults.body.ok = TRUE
        /\ rowResults.body.results = JsonRows(KeptRows(rowNormalized.rows, rowQuery))
        /\ rowResults.body.count = Len(rowResults.body.results)
        /\ (rowBatch = <<RowExample>>
              /\ PremiumAndVolumeQuery(rowQuery, <<"5", "0", "0", "0", "0">>))
               => rowResults.body.count = 1
        /\ (rowBatch = <<RowExample>>
              /\ PremiumAndVolumeQuery(rowQuery, <<"1", "0", "0", "0", "0", "0">>))
               => rowResults.body.count = 0

\* C11 witness: of two rows, the minimum premium and the volume filter have
\* kept the second and dropped the first.
C11_Witness ==
    /\ rowResults.made
    /\ rowBatch = <<RowSmall, RowExample>>
    /\ PremiumAndVolumeQuery(rowQuery, <<"5", "0", "0", "0", "0">>)
    /\ rowResults.body.count = 1
    /\ rowResults.body.results[1].premium = IntV(75000)

\* C12 (as claimed): the canonical records made of two different rows of a
\* batch have different ids.
C12_IdsPairwiseDistinct ==
    rowNormalized.made =>
        \A i, j \in 1..Len(rowBatch) :
            (i # j /\ rowBatch[i] # rowBatch[j])
                => rowNormalized.rows[i].id # rowNormalized.rows[j].id

NumericFields == {"premium", "trade_price", "quantity", "strike", "iv", "underlying_price",
                  "open_interest"}

\* C13 (as claimed): in every canonical record each of the seven numeric
\* fields is a finite number.
C13_NumericFieldsFinite ==
    rowNormalized.made =>
        \A i \in 1..Len(rowNormalized.rows) : \A f \in NumericFields :
            IsFiniteNumber(rowNormalized.rows[i][f])

NumericChars == {"0", "1", "2", "3", "4", "5", "6", "7", "8", "9", ".", "+", "-"}

\* The string with every character outside 0-9 . + - taken out.
Stripped(s) ==
    LET Numeric(c) == c \in NumericChars
    IN  SelectSeq(s, Numeric)

\* The argument is absent, empty, or holds nothing but noise and sign characters.
NoiseOrSignsOnly(value) ==
    \/ value = JsNull
    \/ \A i \in 1..Len(value) : value[i] \notin (NumericChars \ {"+", "-"})

\* C14: normalizeNumericFilter returns null or a finite numericValue with the
\* argument stripped to 0-9 . + - as textValue; it returns null for an absent
\* or empty argument and for one of noise or sign characters only, and
\* {50000, "50000"} for "$50,000".
C14_SanitizerResult ==
    numericOut.made =>
        /\ \/ numericOut.filter = NoFilter
           \/ /\ ~numericOut.filter.isNull
              /\ numericOut.filter.numericValue.fin
              /\ numericOut.filter.textValue = Stripped(numericIn)
        /\ NoiseOrSignsOnly(numericIn) => numericOut.filter.isNull
        /\ numericIn = DollarFiftyThousand =>
              /\ ~numericOut.filter.isNull
              /\ NumEq(numericOut.filter.numericValue, Fin(50000, 1))
              /\ numericOut.filter.textValue = <<"5", "0", "0", "0", "0">>

\* C14 witness: "$50,000" has been sanitized.
C14_Witness ==
    numericOut.made /\ numericIn = DollarFiftyThousand /\ ~numericOut.filter.isNull

\* The entries the cache holds under the key in the next state.
HeldNext(key) == {e \in cache' : e.key = key}

\* A call returns from a miss in this step.
ReturnsFromMiss == done' # done /\ done'.kind = "miss"

\* C15: a call that missed has made one fetch of its own and returns the
\* response computed from what that fetch gave, in a step that completes no
\* cache.put (its own is left scheduled); when a scheduled cache.put completes,
\* its entry is the one its key holds, whatever the key held; and the entries
\* under a key change in no other way but by going.
C15_OwnFetchAndLastWriteWins ==
    /\ [](done.kind = "miss" =>
            /\ done.fetches = 1
            /\ done.res = MissResponse(done.q, done.up))
    /\ [][/\ ReturnsFromMiss => (cache' = cache /\ done'.scheduled \subseteq pending')
          /\ \A e \in pending \ pending' : HeldNext(e.key) = {e}
          /\ \A key \in {e.key : e \in cache \cup cache'} :
                HeldNext(key) # Held(key) =>
                    \/ HeldNext(key) = {}
                    \/ \E e \in pending \ pending' : e.key = key]_vars

\* C15 witness: a call missed, a cache.put of another call for its key
\* completed while it awaited its fetch, it returned the response of its own
\* fetch, and its own cache.put has completed since: the key holds its entry.
C15_Witness ==
    /\ done.kind = "miss" /\ done.dirty
    /\ done.scheduled # {}
    /\ done.scheduled \subseteq cache
    /\ \A e \in done.scheduled : Held(e.key) = {e} /\ e.res.body = done.res.body

\* What the aggression filter is to keep of a canonical record, by its flags.
KeptByFlags(row, q) ==
    IF aggressiveBuyOnly(q) /\ aggressiveSellOnly(q)
    THEN row.aggressive_buy = BoolV(TRUE) \/ row.aggressive_sell = BoolV(TRUE)
    ELSE IF aggressiveBuyOnly(q) THEN row.aggressive_buy = BoolV(TRUE)
    ELSE IF aggressiveSellOnly(q) THEN row.aggressive_sell = BoolV(TRUE)
    ELSE TRUE

RowsKeptByFlags(rows, q) ==
    LET Keep(row) == KeptByFlags(row, q)
    IN  SelectSeq(rows, Keep)

\* The query enables neither the premium nor the volume filter.
AggressionAlone(q) == minPremiumFilter(q).isNull /\ ~volumeGtOi(q)

\* A canonical record without spread position and without bid/ask signal.
NoSignal(row) ==
    /\ row.pos_in_spread = Null
    /\ row.at_or_above_ask = BoolV(FALSE)
    /\ row.at_or_below_bid = BoolV(FALSE)

\* C16: with the other filters off, the results are the normalized records
\* with aggressive_buy true under aggressive-buy-only, those with
\* aggressive_sell true under aggressive-sell-only, those with either under
\* both, and all under neither; a record with pos_in_spread null and no
\* bid/ask signal is in no result of a single-sided filter.
C16_AggressionFilterFollowsFlags ==
    (rowResults.made /\ AggressionAlone(rowQuery)) =>
        /\ rowResults.body.results = JsonRows(RowsKeptByFlags(rowNormalized.rows, rowQuery))
        /\ (aggressiveBuyOnly(rowQuery) # aggressiveSellOnly(rowQuery)) =>
              \A i \in 1..Len(rowNormalized.rows) :
                  NoSignal(rowNormalized.rows[i]) =>
                      \A j \in 1..Len(rowResults.body.results) :
                          rowResults.body.results[j] # JsonRow(rowNormalized.rows[i])

\* C16 witness: under aggressive-buy-only alone, of a row without signal
\* and a row traded at the ask the second alone is kept.
C16_Witness ==
    /\ rowResults.made /\ AggressionAlone(rowQuery)
    /\ aggressiveBuyOnly(rowQuery) /\ ~aggressiveSellOnly(rowQuery)
    /\ rowBatch = <<RowBare, RowAtAsk>>
    /\ NoSignal(rowNormalized.rows[1])
    /\ rowResults.body.count = 1
    /\ rowResults.body.results[1].id = StrV(<<"a", "1">>)

\* The spread position of a canonical record is a number at least / at most x.
SpreadAtLeast(row, x) == row.pos_in_spread # Null /\ NumGeq(row.pos_in_spread.num, x)

SpreadAtMost(row, x) == row.pos_in_spread # Null /\ NumGeq(x, row.pos_in_spread.num)

AggressionFromSignals(row) ==
    /\ row.aggressive_buy =
          BoolV(row.at_or_above_ask = BoolV(TRUE) \/ SpreadAtLeast(row, Fin(75, 100)))
    /\ row.aggressive_sell =
          BoolV(row.at_or_below_bid = BoolV(TRUE) \/ SpreadAtMost(row, Fin(25, 100)))

\* C17: in every canonical record aggressive_buy is at_or_above_ask or a
\* finite pos_in_spread >= 0.75, and aggressive_sell is at_or_below_bid or a
\* finite pos_in_spread <= 0.25; a record without signal has both false.
C17_AggressionFromSignals ==
    rowNormalized.made =>
        \A i \in 1..Len(rowNormalized.rows) :
            /\ AggressionFromSignals(rowNormalized.rows[i])
            /\ NoSignal(rowNormalized.rows[i]) =>
                  /\ rowNormalized.rows[i].aggressive_buy = BoolV(FALSE)
                  /\ rowNormalized.rows[i].aggressive_sell = BoolV(FALSE)

\* C17 witness: pos_in_spread 0.1 without other signal gives aggressive_sell
\* alone, and the row without position and signal gives neither.
C17_Witness ==
    /\ rowNormalized.made
    /\ rowBatch = <<RowSmall, RowBare>>
    /\ rowNormalized.rows[1].pos_in_spread = NumV(Fin(1, 10))
    /\ rowNormalized.rows[1].at_or_below_bid = BoolV(FALSE)
    /\ rowNormalized.rows[1].aggressive_sell = BoolV(TRUE)
    /\ rowNormalized.rows[1].aggressive_buy = BoolV(FALSE)
    /\ NoSignal(rowNormalized.rows[2])
    /\ rowNormalized.rows[2].aggressive_buy = BoolV(FALSE)
    /\ rowNormalized.rows[2].aggressive_sell = BoolV(FALSE)

\* The candidate is absent, null or the empty string.
AbsentNullOrEmpty(v) == v = Undefined \/ v = Null \/ v = StrV(<<>>)

NoSpreadCandidate(row) ==
    \A i \in 1..Len(PosInSpreadFields) : AbsentNullOrEmpty(Field(row, PosInSpreadFields[i]))

\* C18: a row whose spread-position candidates are all absent, null or
\* empty gets pos_in_spread null, and its aggressive_buy and aggressive_sell
\* are its at_or_above_ask and at_or_below_bid alone.
C18_NoCandidateGivesNull ==
    rowNormalized.made =>
        \A i \in 1..Len(rowBatch) :
            NoSpreadCandidate(rowBatch[i]) =>
                /\ rowNormalized.rows[i].pos_in_spread = Null
                /\ rowNormalized.rows[i].aggressive_buy = rowNormalized.rows[i].at_or_above_ask
                /\ rowNormalized.rows[i].aggressive_sell = rowNormalized.rows[i].at_or_below_bid

\* The text the first element of an errors array offers: itself when a
\* string, else its .message when that is a string.
FirstOfErrors(data) ==
    IF data.errors.arr /\ Len(data.errors.items) > 0
    THEN IF data.errors.items[1].isString THEN data.errors.items[1].str
         ELSE IF data.errors.items[1].message.t = "string"
              THEN data.errors.items[1].message.str
              ELSE <<>>
    ELSE <<>>

StringOrEmpty(v) == IF v.t = "string" THEN v.str ELSE <<>>

\* The sources of the error text, in order.
ErrorSources(in) ==
    IF in.data.kind = "object"
    THEN <<StringOrEmpty(in.data.error), StringOrEmpty(in.data.message), FirstOfErrors(in.data),
           in.fallback>>
    ELSE <<in.fallback>>

\* C19: the error of the failure envelope is the first non-empty of the
\* error string, the message string, the first element of errors (or its
\* .message) and the status text, whenever one of them is non-empty.
C19_FirstNonEmptySource ==
    errorOut.made =>
        \A i \in 1..Len(ErrorSources(errorIn)) :
            (/\ ErrorSources(errorIn)[i] # <<>>
             /\ \A j \in 1..(i - 1) : ErrorSources(errorIn)[j] = <<>>)
                => errorOut.error = ErrorSources(errorIn)[i]

LocalFlagNames == {"volume_gt_oi", "aggressive_buy_only", "aggressive_sell_only"}

\* Parameters without the three local-only flags.
WithoutLocalFlags(ps) ==
    DropParam(DropParam(DropParam(ps, "volume_gt_oi"), "aggressive_buy_only"),
              "aggressive_sell_only")

\* kp, up: the parameters of the key and of the fetched URL. The key carries
\* each flag once, as "true" or "false", by what the request asked; the
\* fetched URL carries none of them and has the other parameters of the key.
FlagsInKeyOnly(req, kp, up) ==
    /\ ParamGet(kp, "volume_gt_oi") = BoolStr(volumeGtOi(req.q))
    /\ ParamGet(kp, "aggressive_buy_only") = BoolStr(aggressiveBuyOnly(req.q))
    /\ ParamGet(kp, "aggressive_sell_only") = BoolStr(aggressiveSellOnly(req.q))
    /\ \A name \in LocalFlagNames :
          /\ Cardinality({i \in 1..Len(kp) : kp[i][1] = name}) = 1
          /\ ~HasParam(up, name)
    /\ up = WithoutLocalFlags(kp)

\* C20: the three local-only flags are in the cache key with the values
\* "true" / "false" and in no URL that is fetched; the fetched URL is the key
\* without them.
C20_LocalFlagsInKeyOnly ==
    keys # <<>> =>
        \A i \in {1, 2} :
            \E k \in {ParseUrl(keys[i])} : \E u \in {ParseUrl(urls[i])} :
                /\ u.base = k.base
                /\ FlagsInKeyOnly(IF i = 1 THEN reqA ELSE reqB, k.params, u.params)

\* C20 witness: a request with volume_gt_oi=true and one without flags have
\* their keys and fetched URLs built, and the two are fetched at one URL.
C20_Witness ==
    /\ keys # <<>>
    /\ volumeGtOi(reqA.q) /\ ~aggressiveBuyOnly(reqA.q) /\ ~aggressiveSellOnly(reqA.q)
    /\ ~volumeGtOi(reqB.q) /\ ~aggressiveBuyOnly(reqB.q) /\ ~aggressiveSellOnly(reqB.q)
    /\ ParamGet(ParseUrl(keys[1]).params, "volume_gt_oi") = TrueStr
    /\ ParamGet(ParseUrl(keys[2]).params, "volume_gt_oi") = FalseStr
    /\ keys[1] # keys[2]
    /\ urls[1] = urls[2]
    /\ urls[1] # keys[1]

\* The body the pipeline computes for the query q from the upstream response up.
OwnBody(q, up) == ResponseOf(q, up).body

\* C21: a call served from the cache receives the body the pipeline would
\* have computed with its own parameters from the upstream response the entry
\* was made of; and so does every call whose key a stored or scheduled
\* entry has.
C21_CachedBodyIsOwnBody ==
    /\ done.kind = "hit" =>
          \E e \in done.held :
              /\ done.res = e.res
              /\ done.res.body = OwnBody(done.q, e.up)
    /\ \A c \in BagToSet(calls) : \A e \in cache \cup pending :
          e.key = CallKey(c) => e.res.body = OwnBody(c.q, e.up)

\* C21 witness: a call was served the entry that a call with the same
\* parameters written otherwise had made of upstream rows.
C21_Witness ==
    /\ done.kind = "hit"
    /\ done.q = QuerySpelled
    /\ \E e \in done.held :
          /\ e.q = QueryVolume
          /\ e.up = UpRows
          /\ done.res = e.res
          /\ done.res.body.count = 1

====
